---- MODULE Spec2Model ----
(***************************************************************************)
(* A model of the scraper of waterpuffluv-sudo/webscraping                  *)
(* (src/scraper.py): the three HTML-to-record extractors, the three         *)
(* pagination strategies that drive the browser, and the top-level run      *)
(* that owns the browser driver.                                            *)
(*                                                                          *)
(* A text is a sequence of one-character strings.  A document is the        *)
(* sequence, in document order, of its candidate containers; a container    *)
(* has a tag, a set of class tokens and the sequence of its child elements  *)
(* (tag "#text" is a bare text node of the container).                      *)
(***************************************************************************)
EXTENDS Naturals, Sequences, FiniteSets

\* ------------------------------------------------------------------------
\* Texts
\* ------------------------------------------------------------------------
WS == {" ", "\n", "\t"}

Digit == {"0", "1", "2", "3", "4", "5", "6", "7", "8", "9"}

Letter == {"a", "b", "c", "d", "e", "f", "g", "h", "i", "j", "k", "l", "m",
           "n", "o", "p", "q", "r", "s", "t", "u", "v", "w", "x", "y", "z",
           "A", "B", "G", "N", "P", "R", "_"}

\* \w of the regular expressions
WordChar == Letter \cup Digit

\* Python's None, as a value comparable with a text
None == <<"None">>

\* n copies of the character c
Rep(n, c) == [i \in 1..n |-> c]

\* s.strip()
strip(s) ==
    LET n   == Len(s)
        idx == {i \in 1..n : s[i] \notin WS}
        lo  == CHOOSE i \in 1..n : i \in idx /\ \A j \in 1..(i - 1) : j \notin idx
        back == CHOOSE k \in 1..n :
                    (n + 1 - k) \in idx /\ \A j \in (n + 2 - k)..n : j \notin idx
    IN  IF idx = {} THEN <<>> ELSE SubSeq(s, lo, n + 1 - back)

\* re.sub(r"\s+", " ", text or "").strip(): each run of whitespace becomes
\* the one space that stands for its first character
_clean(text) ==
    LET s      == IF text = None THEN <<>> ELSE text
        marked == [i \in 1..Len(s) |->
                      [c    |-> IF s[i] \in WS THEN " " ELSE s[i],
                       keep |-> s[i] \notin WS \/ (i > 1 /\ s[i - 1] \notin WS)]]
        kept   == SelectSeq(marked, LAMBDA m : m.keep)
    IN  strip([i \in 1..Len(kept) |-> kept[i].c])

\* " ".join(ts)
Join(ts) ==
    LET F[i \in 0..Len(ts)] ==
            IF i = 0 THEN <<>>
            ELSE IF i = 1 THEN ts[1]
            ELSE F[i - 1] \o <<" ">> \o ts[i]
    IN  F[Len(ts)]

\* DATE_RE matches s at position i: \b(20\d{2})-(\d{2})-(\d{2})\b
DateAt(s, i) ==
    /\ i >= 1
    /\ i + 9 <= Len(s)
    /\ s[i] = "2" /\ s[i + 1] = "0"
    /\ s[i + 2] \in Digit /\ s[i + 3] \in Digit
    /\ s[i + 4] = "-"
    /\ s[i + 5] \in Digit /\ s[i + 6] \in Digit
    /\ s[i + 7] = "-"
    /\ s[i + 8] \in Digit /\ s[i + 9] \in Digit
    /\ (i = 1 \/ s[i - 1] \notin WordChar)
    /\ (i + 9 = Len(s) \/ s[i + 10] \notin WordChar)

\* DATE_RE.search(s): the position of the leftmost match, 0 for no match
DATE_RE_search(s) ==
    LET hits == {i \in 1..Len(s) : DateAt(s, i)}
    IN  IF hits = {} THEN 0 ELSE CHOOSE i \in hits : \A j \in hits : i <= j

\* DATE_RE.sub("", s): the characters of every match removed (two matches
\* never overlap)
DATE_RE_sub(s) ==
    LET marked == [k \in 1..Len(s) |->
                      [c    |-> s[k],
                       keep |-> \A i \in 1..k : k <= i + 9 => ~DateAt(s, i)]]
        kept   == SelectSeq(marked, LAMBDA m : m.keep)
    IN  [k \in 1..Len(kept) |-> kept[k].c]

\* text[:n]
Prefix(text, n) == SubSeq(text, 1, IF Len(text) < n THEN Len(text) ELSE n)

\* ------------------------------------------------------------------------
\* Elements
\* ------------------------------------------------------------------------
El(tag, cls, text) == [tag |-> tag, cls |-> cls, text |-> text]

Card(tag, cls, elems) == [tag |-> tag, cls |-> cls, elems |-> elems]

\* select_one found nothing
NoneEl == [tag |-> "None", cls |-> {}, text |-> <<>>]

\* the class tokens that hold the substring `hint` ([class*='hint'])
ClassHolding(hint) ==
    CASE hint = "product"     -> {"product", "product-card", "product-price", "products"}
      [] hint = "price"       -> {"price", "product-price"}
      [] hint = "review"      -> {"review", "review-card", "reviews"}
      [] hint = "testimonial" -> {"testimonial", "testimonial-text", "testimonials"}
      [] hint = "author"      -> {"author", "testimonial-author"}
      [] OTHER                -> {hint}

\* [class*='hint']
ClassHas(e, hint) == e.cls \cap ClassHolding(hint) # {}

\* whether element (or container) e matches the CSS selector list sel
Matches(e, sel) ==
    CASE sel = "div.card, article, div[class*='product']" ->
            \/ (e.tag = "div" /\ "card" \in e.cls)
            \/ e.tag = "article"
            \/ (e.tag = "div" /\ ClassHas(e, "product"))
      [] sel = "h2, h3, h2 a, h3 a, a" -> e.tag \in {"h2", "h3", "a"}
      [] sel = "p" -> e.tag = "p"
      [] sel = ".price, [class*='price']" -> "price" \in e.cls \/ ClassHas(e, "price")
      [] sel = "div.review, div[class*='review'], div.card, article, li" ->
            \/ (e.tag = "div" /\ "review" \in e.cls)
            \/ (e.tag = "div" /\ ClassHas(e, "review"))
            \/ (e.tag = "div" /\ "card" \in e.cls)
            \/ e.tag \in {"article", "li"}
      [] sel = "div.testimonial, div[class*='testimonial'], blockquote, div.card, article" ->
            \/ (e.tag = "div" /\ "testimonial" \in e.cls)
            \/ (e.tag = "div" /\ ClassHas(e, "testimonial"))
            \/ e.tag = "blockquote"
            \/ (e.tag = "div" /\ "card" \in e.cls)
            \/ e.tag = "article"
      [] sel = "[class*='author'], strong, h3, h4" ->
            ClassHas(e, "author") \/ e.tag \in {"strong", "h3", "h4"}

\* soup.select(sel): the containers of the document that match, in document order
select(html, sel) == SelectSeq(html, LAMBDA c : Matches(c, sel))

\* c.select(sel): the child elements of container c that match, in document order
select_in(c, sel) ==
    SelectSeq(c.elems, LAMBDA e : e.tag # "#text" /\ Matches(e, sel))

\* c.select_one(sel): the first match, or None
select_one(c, sel) ==
    LET found == select_in(c, sel)
    IN  IF found = <<>> THEN NoneEl ELSE found[1]

\* el.get_text(" ", strip=True) of a leaf element or of a container
get_text(el) ==
    IF "elems" \in DOMAIN el
    THEN LET parts == [i \in 1..Len(el.elems) |-> strip(el.elems[i].text)]
         IN  Join(SelectSeq(parts, LAMBDA t : t # <<>>))
    ELSE strip(el.text)

\* _safe_text: the cleaned text of el; "" when el is None (both attempts raise)
_safe_text(el) == IF el.tag = "None" THEN <<>> ELSE _clean(get_text(el))

\* the dedup loop shared by the three extractors: keys[i] is the key of
\* items[i]; the first item of each key is kept
Dedup(items, keys) ==
    LET F[i \in 0..Len(items)] ==
            IF i = 0 THEN [seen |-> {}, out |-> <<>>]
            ELSE LET a == F[i - 1]
                 IN  IF keys[i] \notin a.seen
                     THEN [seen |-> a.seen \cup {keys[i]},
                           out |-> Append(a.out, items[i])]
                     ELSE a
    IN  F[Len(items)].out

\* ------------------------------------------------------------------------
\* PRODUCTS
\* ------------------------------------------------------------------------
\* the end of the loop body of extract_products, by the texts it recovered:
\* <<>> (continue) or the one item appended
product_record(name, desc, price, page, url) ==
    IF name = <<>> THEN <<>>
    ELSE << [name |-> name, description |-> desc,
             price |-> IF price # <<>> THEN price ELSE None,
             page |-> page, source_url |-> url] >>

\* the body of the loop over the cards of extract_products
product_item(c, page, url) ==
    product_record(_safe_text(select_one(c, "h2, h3, h2 a, h3 a, a")),
                   _safe_text(select_one(c, "p")),
                   _safe_text(select_one(c, ".price, [class*='price']")),
                   page, url)

\* the list `items` of extract_products before the dedup
product_items(html, page, url) ==
    LET cards == select(html, "div.card, article, div[class*='product']")
        F[i \in 0..Len(cards)] ==
            IF i = 0 THEN <<>> ELSE F[i - 1] \o product_item(cards[i], page, url)
    IN  F[Len(cards)]

product_key(it) == <<it.name, it.price>>

\* the dedup of extract_products
dedup_products(items) ==
    Dedup(items, [i \in 1..Len(items) |-> product_key(items[i])])

extract_products(html, page, url) == dedup_products(product_items(html, page, url))

\* ------------------------------------------------------------------------
\* REVIEWS
\* ------------------------------------------------------------------------
\* the first paragraph that holds no date is kept: a later one never replaces it
longer_first(best, t) ==
    IF t # <<>> /\ DATE_RE_search(t) = 0 /\ best = <<>> THEN t ELSE best

\* one round of "pick the longest paragraph as review text": paragraph text t
\* replaces best when it is not empty, holds no date and is longer
longer(best, t) ==
    IF t # <<>> /\ DATE_RE_search(t) = 0 /\ Len(t) > Len(best) THEN t ELSE best

\* the loop over c.select("p"): the first of the longest paragraphs that hold
\* no date, "" for none
best_paragraph(c) ==
    LET ps == select_in(c, "p")
        F[i \in 0..Len(ps)] ==
            IF i = 0 THEN <<>> ELSE longer(F[i - 1], _safe_text(ps[i]))
    IN  F[Len(ps)]

MinReviewLen == 5

\* the end of the loop body of extract_reviews, by the match position m (0 for
\* no match) and the text chosen: <<>> (continue) or the one item appended
review_record(text_all, m, best, url) ==
    IF m = 0 THEN <<>>
    ELSE IF Len(best) < MinReviewLen THEN <<>>
    ELSE << [date |-> SubSeq(text_all, m, m + 9), text |-> best, source_url |-> url] >>

\* best, with the fallback: the full text with the dates removed
review_text(text_all, best) ==
    IF best # <<>> THEN best ELSE _clean(DATE_RE_sub(text_all))

\* the loop body of extract_reviews from text_all on
review_from(text_all, c, url) ==
    review_record(text_all, DATE_RE_search(text_all),
                  review_text(text_all, best_paragraph(c)), url)

\* the body of the loop over the cards of extract_reviews
review_item(c, url) == review_from(_safe_text(c), c, url)

\* the list `items` of extract_reviews before the dedup
review_items(html, url) ==
    LET cards == select(html, "div.review, div[class*='review'], div.card, article, li")
        F[i \in 0..Len(cards)] ==
            IF i = 0 THEN <<>> ELSE F[i - 1] \o review_item(cards[i], url)
    IN  F[Len(cards)]

KeyPrefix == 80

\* the key without the [:80]: the whole text
review_key_full_text(it) == <<it.date, it.text>>

review_key(it) == <<it.date, Prefix(it.text, KeyPrefix)>>

\* the dedup of extract_reviews
dedup_reviews(items) ==
    Dedup(items, [i \in 1..Len(items) |-> review_key(items[i])])

extract_reviews(html, url) == dedup_reviews(review_items(html, url))

\* ------------------------------------------------------------------------
\* TESTIMONIALS
\* ------------------------------------------------------------------------
MinTestimonialLen == 10

\* the end of the loop body of extract_testimonials, by the texts it
\* recovered: <<>> (continue) or the one item appended
testimonial_record(author, text, url) ==
    IF Len(text) < MinTestimonialLen THEN <<>>
    ELSE << [author |-> IF author # <<>> THEN author ELSE None,
             text |-> text, source_url |-> url] >>

\* text_el = b.select_one("p") if b.name != "blockquote" else b
text_el(b) == IF b.tag # "blockquote" THEN select_one(b, "p") ELSE b

\* the body of the loop over the blocks of extract_testimonials
testimonial_item(b, url) ==
    testimonial_record(_safe_text(select_one(b, "[class*='author'], strong, h3, h4")),
                       _safe_text(text_el(b)), url)

\* the list `items` of extract_testimonials before the dedup
testimonial_items(html, url) ==
    LET blocks == select(html, "div.testimonial, div[class*='testimonial'], blockquote, div.card, article")
        F[i \in 0..Len(blocks)] ==
            IF i = 0 THEN <<>> ELSE F[i - 1] \o testimonial_item(blocks[i], url)
    IN  F[Len(blocks)]

testimonial_key(it) ==
    <<IF it.author # None THEN it.author ELSE <<>>, Prefix(it.text, KeyPrefix)>>

\* the dedup of extract_testimonials
dedup_testimonials(items) ==
    Dedup(items, [i \in 1..Len(items) |-> testimonial_key(items[i])])

extract_testimonials(html, url) ==
    dedup_testimonials(testimonial_items(html, url))

\* ------------------------------------------------------------------------
\* The site the browser shows
\* ------------------------------------------------------------------------
BASE == <<"https://web-scraping.dev">>

T_Tea   == <<"T", "e", "a">>
T_Nice  == <<"N", "i", "c", "e">>
T_Good  == <<"G", "o", "o", "d">>
T_5     == <<"$", "5">>
T_6     == <<"$", "6">>
T_Ann   == <<"A", "n", "n">>
T_Bob   == <<"B", "o", "b">>
T_Great == <<"G", "r", "e", "a", "t">>
T_Poor  == <<"P", "o", "o", "r", "!">>
T_Meh   == <<"m", "e", "h">>
T_May18 == <<"2", "0", "2", "3", "-", "0", "5", "-", "1", "8">>
T_Jun02 == <<"2", "0", "2", "3", "-", "0", "6", "-", "0", "2">>
T_Long  == <<"R", "e", "a", "l", "l", "y", " ", "g", "o", "o", "d", "!">>
T_Fine  == <<"A", "l", "l", " ", "f", "i", "n", "e", " ", "n", "o", "w">>

\* the renderings of a products listing page: 1 an empty listing, 2 cards from
\* which no name can be recovered, 3 three cards of which two share a key
ProductPages ==
    << <<>>,
       << Card("div", {"card"}, <<El("p", {}, T_Nice), El("span", {"price"}, T_5)>>) >>,
       << Card("div", {"card"}, <<El("h3", {}, T_Tea), El("p", {}, T_Nice),
                                  El("span", {"price"}, T_5)>>),
          Card("article", {}, <<El("a", {}, T_Tea), El("span", {"product-price"}, T_6)>>),
          Card("div", {"product-card"}, <<El("h2", {}, T_Tea), El("p", {}, T_Good),
                                          El("span", {"price"}, T_5)>>) >> >>

\* the review cards of the site in mounting order; the page with `n` of them
\* mounted is the first n (the third repeats the key of the first, the fifth
\* holds no date)
ReviewCardsOnSite ==
    << Card("div", {"review"}, <<El("span", {}, T_May18), El("p", {}, T_Great)>>),
       Card("div", {"review"}, <<El("span", {}, T_Jun02), El("p", {}, T_Great)>>),
       Card("li", {}, <<El("#text", {}, T_May18), El("p", {}, T_Great)>>),
       Card("div", {"review-card"}, <<El("span", {}, T_May18), El("p", {}, T_Poor)>>),
       Card("div", {"review"}, <<El("p", {}, T_Great)>>) >>

\* the testimonial blocks of the site in mounting order (the third is too short)
TestimonialBlocksOnSite ==
    << Card("div", {"testimonial"}, <<El("strong", {}, T_Ann), El("p", {}, T_Long)>>),
       Card("blockquote", {}, <<El("#text", {}, T_Fine)>>),
       Card("div", {"testimonial"}, <<El("h4", {}, T_Bob), El("p", {}, T_Meh)>>) >>

ProductsUrl(p) == BASE \o <<"/products?page=", p>>

ReviewsUrl == BASE \o <<"/reviews">>

TestimonialsUrl == BASE \o <<"/testimonials">>

\* driver.page_source of the reviews page with n cards mounted
ReviewsPage(n) == SubSeq(ReviewCardsOnSite, 1, n)

\* driver.page_source of the testimonials page with n blocks mounted
TestimonialsPage(n) == SubSeq(TestimonialBlocksOnSite, 1, n)

\* extract_reviews(driver.page_source, url=url), by the number of cards mounted
ReviewsExtracted ==
    [n \in 0..Len(ReviewCardsOnSite) |-> extract_reviews(ReviewsPage(n), ReviewsUrl)]

\* reviews_count() of scrape_reviews, by the number of cards mounted
reviews_count(n) == Len(ReviewsExtracted[n])

\* extract_testimonials(driver.page_source, url=url), by the number of blocks
\* mounted
TestimonialsExtracted ==
    [n \in 0..Len(TestimonialBlocksOnSite) |->
        extract_testimonials(TestimonialsPage(n), TestimonialsUrl)]

\* the scroll heights document.body.scrollHeight can read
Heights == {100, 200, 300}

\* ------------------------------------------------------------------------
\* Bounds
\* ------------------------------------------------------------------------
\* max_pages of scrape_products
MaxPages == 7

\* max_clicks of scrape_reviews
MaxClicks == 4

\* max_scrolls of scrape_testimonials
MaxScrolls == 8

\* the longest document an extractor is applied to directly
MaxCards == 3

\* extract_products(driver.page_source, page=page, source_url=url), by the
\* rendering the browser shows and the page navigated to
ProductsExtracted ==
    [d \in 1..Len(ProductPages) |->
        [p \in 1..MaxPages |-> extract_products(ProductPages[d], p, ProductsUrl(p))]]

\* ------------------------------------------------------------------------
\* State
\* ------------------------------------------------------------------------
VARIABLES
    entry,        \* the function the execution entered: "__main__", or a
                  \* strategy or an extractor called directly with its arguments
    pc,           \* the place of the execution
    exc,          \* the exception that is propagating ("none" for none)
    raised_at,    \* the place that raised it
    html,         \* the document an extractor is called with directly
    ret,          \* the value the last call returned
    driver,       \* "none", "open", "quit"
    quit_calls,   \* the calls of driver.quit()
    files,        \* the JSON files: [written, data] per path
    dom,          \* what the browser shows: the rendering of the products page,
                  \* the number of cards or blocks mounted
    load_more,    \* a visible, enabled "Load More" control is in the page
    page,         \* scrape_products: page
    all_items,    \* scrape_products: all_items
    prev,         \* scrape_reviews: prev
    iter,         \* the rounds of the running for-loop that are over
    last_height,  \* scrape_testimonials: last_height
    stable,       \* scrape_testimonials: stable
    navs,         \* history: the pages scrape_products navigated to
    served,       \* history: the rendering each of these navigations found
    clicks,       \* history: the clicks the control received
    click_failed, \* history: a safe_click ended in an interaction failure
    exit_by,      \* history: how the loop of scrape_reviews was left
    quiet,        \* history: the page is as the last reviews_count() saw it
    counts,       \* history: the values prev took
    readings      \* history: the scroll heights read

vars == <<entry, pc, exc, raised_at, html, ret, driver, quit_calls, files, dom,
          load_more, page, all_items, prev, iter, last_height, stable, navs,
          served, clicks, click_failed, exit_by, quiet, counts, readings>>

runVars == <<driver, quit_calls, files>>

siteVars == <<dom, load_more>>

localVars == <<page, all_items, prev, iter, last_height, stable>>

historyVars == <<navs, served, clicks, click_failed, exit_by, quiet, counts, readings>>

Paths == {"products.json", "reviews.json", "testimonials.json"}

\* the histories of a called strategy start empty
HistoryReset ==
    /\ navs = <<>> /\ served = <<>> /\ clicks = 0 /\ click_failed = FALSE
    /\ exit_by = "" /\ quiet = TRUE /\ counts = <<>> /\ readings = <<>>

\* no frame of a strategy is live
LocalsReset ==
    /\ page = 0 /\ all_items = <<>> /\ prev = 0 /\ iter = 0
    /\ last_height = 0 /\ stable = 0

Idle ==
    /\ exc = "none" /\ raised_at = "none" /\ ret = <<>>
    /\ quit_calls = 0
    /\ files = [f \in Paths |-> [written |-> FALSE, data |-> <<>>]]
    /\ dom = 0 /\ load_more = FALSE
    /\ LocalsReset /\ HistoryReset

\* ------------------------------------------------------------------------
\* Calls, returns and exceptions
\* ------------------------------------------------------------------------
Strategies == {"scrape_products", "scrape_reviews", "scrape_testimonials"}

\* a history is written only for a strategy that is called directly
Rec(h, v) == IF entry = "__main__" THEN h ELSE Append(h, v)

\* a call of a strategy starts its histories afresh
FreshHistory ==
    /\ navs' = <<>> /\ served' = <<>> /\ clicks' = 0 /\ click_failed' = FALSE
    /\ exit_by' = "" /\ quiet' = TRUE /\ counts' = <<>> /\ readings' = <<>>

\* the frame of the strategy is dropped
PopFrame ==
    /\ page' = 0 /\ all_items' = <<>> /\ prev' = 0 /\ iter' = 0
    /\ last_height' = 0 /\ stable' = 0

\* each scrape of the run in a try statement of its own: the exception is
\* dropped and the run goes on with the next kind
Raise_and_go_on(e) ==
    /\ exc' = e
    /\ raised_at' = pc
    /\ pc' = IF entry # "__main__" THEN "raised"
             ELSE IF pc \in {"P_get", "P_wait"} THEN "scrape_reviews"
             ELSE IF pc \in {"R_get", "R_wait", "R_click"} THEN "scrape_testimonials"
             ELSE "finally"
    /\ PopFrame

\* exception e leaves the running strategy or step: to the finally clause of
\* the run, or to the direct caller
Raise(e) ==
    /\ exc' = e
    /\ raised_at' = pc
    /\ pc' = IF entry = "__main__" THEN "finally" ELSE "raised"
    /\ PopFrame

\* `return v` of a strategy: to the save step of the run, or to the direct caller
Return(v, save) ==
    /\ ret' = v
    /\ pc' = IF entry = "__main__" THEN save ELSE "returned"
    /\ PopFrame

\* ------------------------------------------------------------------------
\* wait_page
\* ------------------------------------------------------------------------
AfterWait(at) ==
    CASE at = "P_wait" -> "P_extract"
      [] at = "R_wait" -> "R_init"
      [] at = "T_wait" -> "T_init"

\* WebDriverWait(driver, timeout).until(body present): returns, or raises
\* TimeoutException when the timeout ends first
wait_page ==
    /\ pc \in {"P_wait", "R_wait", "T_wait"}
    /\ \E present \in BOOLEAN :
          IF present
          THEN /\ pc' = AfterWait(pc)
               /\ UNCHANGED <<exc, raised_at, localVars>>
          ELSE Raise("TimeoutException")
    /\ UNCHANGED <<entry, html, ret, runVars, siteVars, historyVars>>

\* ------------------------------------------------------------------------
\* scrape_products
\* ------------------------------------------------------------------------
Enter_scrape_products ==
    /\ pc = "scrape_products"
    /\ page' = 1 /\ all_items' = <<>>
    /\ FreshHistory
    /\ pc' = "P_get"
    /\ UNCHANGED <<entry, exc, raised_at, html, ret, runVars, siteVars,
                   prev, iter, last_height, stable>>

\* driver.get(url) of page `page`: the browser shows one of the renderings,
\* or the driver fails
P_Navigate ==
    /\ pc = "P_get"
    /\ navs' = Append(navs, page)
    /\ \E ok \in BOOLEAN :
          IF ok
          THEN /\ \E d \in 1..Len(ProductPages) :
                      dom' = d /\ served' = Append(served, d)
               /\ pc' = "P_wait"
               /\ UNCHANGED <<exc, raised_at, localVars>>
          ELSE /\ Raise("WebDriverException")
               /\ UNCHANGED <<dom, served>>
    /\ UNCHANGED <<entry, html, ret, runVars, load_more, clicks, click_failed,
                   exit_by, quiet, counts, readings>>

\* the loop without its break: an empty page is taken for a page like any other
never_past_end(items) == FALSE

\* if not items: (break)
page_is_past_end(items) == items = <<>>

\* the records of a page whose (name, price) is already held are left out
extend_unseen(all, items) ==
    all \o SelectSeq(items, LAMBDA it :
                \A i \in 1..Len(all) : product_key(all[i]) # product_key(it))

\* all_items.extend(items)
extend(all, items) == all \o items

\* extract, then break on an empty page or extend and go on to the next page
P_Extract ==
    /\ pc = "P_extract"
    /\ LET items == ProductsExtracted[dom][page]
       IN  IF page_is_past_end(items)
           THEN /\ pc' = "P_return"
                /\ UNCHANGED <<page, all_items>>
           ELSE /\ all_items' = extend(all_items, items)
                /\ IF page < MaxPages
                   THEN page' = page + 1 /\ pc' = "P_get"
                   ELSE page' = page /\ pc' = "P_return"
    /\ UNCHANGED <<entry, exc, raised_at, html, ret, runVars, siteVars,
                   prev, iter, last_height, stable, historyVars>>

P_Return ==
    /\ pc = "P_return"
    /\ Return(all_items, "save_products")
    /\ UNCHANGED <<entry, exc, raised_at, html, runVars, siteVars, historyVars>>

\* ------------------------------------------------------------------------
\* scrape_reviews
\* ------------------------------------------------------------------------
Enter_scrape_reviews ==
    /\ pc = "scrape_reviews"
    /\ FreshHistory
    /\ pc' = "R_get"
    /\ UNCHANGED <<entry, exc, raised_at, html, ret, runVars, siteVars, localVars>>

\* driver.get(url): the reviews page with some cards mounted, with or without
\* the "Load More" control, or the driver fails
R_Navigate ==
    /\ pc = "R_get"
    /\ \E ok \in BOOLEAN :
          IF ok
          THEN /\ dom' \in 0..Len(ReviewCardsOnSite)
               /\ load_more' \in BOOLEAN
               /\ pc' = "R_wait"
               /\ UNCHANGED <<exc, raised_at, localVars>>
          ELSE /\ Raise("WebDriverException")
               /\ UNCHANGED siteVars
    /\ UNCHANGED <<entry, html, ret, runVars, historyVars>>

\* the page mounts or drops cards, shows or hides the control, at any time
PageChanges ==
    /\ pc \in {"R_init", "R_find", "R_click", "R_waitfx", "R_timeout", "R_check",
               "R_return"}
    /\ \E d \in 0..Len(ReviewCardsOnSite), b \in BOOLEAN :
          /\ <<d, b>> # <<dom, load_more>>
          /\ dom' = d /\ load_more' = b
    /\ quiet' = FALSE
    /\ UNCHANGED <<entry, pc, exc, raised_at, html, ret, runVars, localVars,
                   navs, served, clicks, click_failed, exit_by, counts, readings>>

\* prev = reviews_count()
R_Init ==
    /\ pc = "R_init"
    /\ prev' = reviews_count(dom)
    /\ counts' = Rec(counts, reviews_count(dom))
    /\ quiet' = TRUE
    /\ iter' = 0
    /\ pc' = "R_find"
    /\ UNCHANGED <<entry, exc, raised_at, html, ret, runVars, siteVars, page,
                   all_items, last_height, stable, navs, served, clicks,
                   click_failed, exit_by, readings>>

\* find_clickable_by_text(driver, "Load More"): the control, or None
find_clickable_by_text == IF load_more THEN "button" ELSE "None"

\* the head of a round: break when the control is not found
R_Find ==
    /\ pc = "R_find"
    /\ IF find_clickable_by_text = "None"
       THEN pc' = "R_return" /\ exit_by' = "absent"
       ELSE pc' = "R_click" /\ UNCHANGED exit_by
    /\ UNCHANGED <<entry, exc, raised_at, html, ret, runVars, siteVars, localVars,
                   navs, served, clicks, click_failed, quiet, counts, readings>>

\* safe_click without the `return` after the ActionChains click: the script
\* click follows a click that went through
safe_click_twice(scroll, pointer, script) ==
    IF scroll # "ok" THEN [exc |-> scroll, clicks |-> 0]
    ELSE IF script = "ok" THEN [exc |-> "none", clicks |-> IF pointer = "ok" THEN 2 ELSE 1]
    ELSE [exc |-> script, clicks |-> IF pointer = "ok" THEN 1 ELSE 0]

\* safe_click by the outcomes of its driver calls: the scrollIntoView script
\* (scroll), the ActionChains click (pointer), the script click (script).
\* The exception that leaves it and the clicks the control received.
safe_click(scroll, pointer, script) ==
    IF scroll # "ok" THEN [exc |-> scroll, clicks |-> 0]
    ELSE IF pointer = "ok" THEN [exc |-> "none", clicks |-> 1]
    ELSE IF script = "ok" THEN [exc |-> "none", clicks |-> 1]
    ELSE [exc |-> script, clicks |-> 0]

\* what a driver call on the control can end in: it returns, or the driver
\* raises one of the two exceptions scrape_reviews names or another one
ScriptOutcomes ==
    {"ok", "ElementClickInterceptedException", "StaleElementReferenceException",
     "WebDriverException"}

\* `while True` for `for _ in range(max_clicks)`: the rounds are not counted
NextRound_uncounted ==
    /\ pc' = "R_find"
    /\ UNCHANGED <<iter, exit_by>>

\* the round is over without a break: the next round, or the end of the loop
NextRound ==
    /\ iter' = iter + 1
    /\ IF iter + 1 < MaxClicks
       THEN pc' = "R_find" /\ UNCHANGED exit_by
       ELSE pc' = "R_return" /\ exit_by' = "cap"

\* the try statement without its except clauses
on_click_failure_uncaught(e) == "propagate"

\* the except clauses of the try statement around safe_click, by the
\* exception that leaves safe_click
on_click_failure(e) ==
    CASE e = "ElementClickInterceptedException" -> "last_resort"
      [] e = "StaleElementReferenceException" -> "continue"
      [] OTHER -> "propagate"

\* the try statement around safe_click(driver, btn)
R_Click ==
    /\ pc = "R_click"
    /\ \E scroll \in ScriptOutcomes \ {"ElementClickInterceptedException"},
          pointer \in {"ok", "failed"},
          script \in ScriptOutcomes,
          last_resort \in {"ok", "failed"} :
          LET r == safe_click(scroll, pointer, script)
          IN  CASE r.exc = "none" ->
                      /\ clicks' = clicks + r.clicks
                      /\ pc' = "R_waitfx"
                      /\ UNCHANGED <<exc, raised_at, localVars, click_failed, exit_by>>
                [] r.exc # "none" /\ on_click_failure(r.exc) = "last_resort" ->
                      /\ click_failed' = TRUE
                      /\ IF last_resort = "ok"
                         THEN /\ clicks' = clicks + 1
                              /\ pc' = "R_waitfx"
                              /\ UNCHANGED exit_by
                         ELSE /\ pc' = "R_return"
                              /\ exit_by' = "click_failed"
                              /\ UNCHANGED clicks
                      /\ UNCHANGED <<exc, raised_at, localVars>>
                [] r.exc # "none" /\ on_click_failure(r.exc) = "continue" ->
                      /\ click_failed' = TRUE
                      /\ NextRound
                      /\ UNCHANGED <<exc, raised_at, page, all_items, prev,
                                     last_height, stable, clicks>>
                [] OTHER ->
                      /\ Raise(r.exc)
                      /\ UNCHANGED <<clicks, click_failed, exit_by>>
    /\ UNCHANGED <<entry, html, ret, runVars, siteVars, navs, served, quiet,
                   counts, readings>>

\* cur < prev: a round that reveals nothing is taken for progress
no_progress_strict(cur, before) == cur < before

\* cur <= prev
no_progress(cur, before) == cur <= before

\* WebDriverWait(driver, 10).until(more reviews or no control): returns when
\* the condition holds, raises TimeoutException (caught) when it does not
R_WaitEffect ==
    /\ pc = "R_waitfx"
    /\ quiet' = TRUE
    /\ IF reviews_count(dom) > prev \/ find_clickable_by_text = "None"
       THEN pc' = "R_check"
       ELSE pc' = "R_timeout"
    /\ UNCHANGED <<entry, exc, raised_at, html, ret, runVars, siteVars, localVars,
                   navs, served, clicks, click_failed, exit_by, counts, readings>>

\* except TimeoutException: cur = reviews_count(); break when cur <= prev
R_Timeout ==
    /\ pc = "R_timeout"
    /\ quiet' = TRUE
    /\ IF no_progress(reviews_count(dom), prev)
       THEN pc' = "R_return" /\ exit_by' = "stalled"
       ELSE pc' = "R_check" /\ UNCHANGED exit_by
    /\ UNCHANGED <<entry, exc, raised_at, html, ret, runVars, siteVars, localVars,
                   navs, served, clicks, click_failed, counts, readings>>

\* cur = reviews_count(); break when cur <= prev; else prev = cur
R_Check ==
    /\ pc = "R_check"
    /\ quiet' = TRUE
    /\ IF no_progress(reviews_count(dom), prev)
       THEN /\ pc' = "R_return" /\ exit_by' = "stalled"
            /\ UNCHANGED <<prev, iter, counts>>
       ELSE /\ prev' = reviews_count(dom)
            /\ counts' = Rec(counts, reviews_count(dom))
            /\ NextRound
    /\ UNCHANGED <<entry, exc, raised_at, html, ret, runVars, siteVars, page,
                   all_items, last_height, stable, navs, served, clicks,
                   click_failed, readings>>

\* return extract_reviews(driver.page_source, url=url)
R_Return ==
    /\ pc = "R_return"
    /\ Return(ReviewsExtracted[dom], "save_reviews")
    /\ UNCHANGED <<entry, exc, raised_at, html, runVars, siteVars, historyVars>>

\* ------------------------------------------------------------------------
\* scrape_testimonials
\* ------------------------------------------------------------------------
Enter_scrape_testimonials ==
    /\ pc = "scrape_testimonials"
    /\ FreshHistory
    /\ pc' = "T_get"
    /\ UNCHANGED <<entry, exc, raised_at, html, ret, runVars, siteVars, localVars>>

T_Navigate ==
    /\ pc = "T_get"
    /\ \E ok \in BOOLEAN :
          IF ok
          THEN /\ dom' = 0 /\ load_more' = FALSE
               /\ pc' = "T_wait"
               /\ UNCHANGED <<exc, raised_at, localVars>>
          ELSE /\ Raise("WebDriverException")
               /\ UNCHANGED siteVars
    /\ UNCHANGED <<entry, html, ret, runVars, historyVars>>

\* last_height = document.body.scrollHeight; stable = 0
T_Init ==
    /\ pc = "T_init"
    /\ \E h \in Heights :
          /\ last_height' = h
          /\ readings' = Rec(readings, h)
    /\ stable' = 0
    /\ iter' = 0
    /\ pc' = "T_scroll"
    /\ UNCHANGED <<entry, exc, raised_at, html, ret, runVars, siteVars, page,
                   all_items, prev, navs, served, clicks, click_failed, exit_by,
                   quiet, counts>>

\* the unchanged rounds in a row that end the scrolling
StableRounds == 3

\* stable >= 2: the reading that set last_height is counted as a repeat
stable_after_two(s) == s >= 2

\* if stable >= 3: (break)
enough_stable(s) == s >= StableRounds

\* a round that read a new height leaves the counter as it is
stable_kept(s) == s

\* else: stable = 0
stable_reset(s) == 0

\* one round of the loop: scroll to the bottom, read the height, compare
T_Scroll ==
    /\ pc = "T_scroll"
    /\ \E new_height \in Heights :
          /\ readings' = Rec(readings, new_height)
          /\ IF new_height = last_height
             THEN /\ stable' = stable + 1
                  /\ UNCHANGED last_height
                  /\ IF enough_stable(stable + 1)
                     THEN pc' = "T_return" /\ UNCHANGED iter
                     ELSE /\ iter' = iter + 1
                          /\ pc' = IF iter + 1 < MaxScrolls THEN "T_scroll" ELSE "T_return"
             ELSE /\ stable' = stable_reset(stable)
                  /\ last_height' = new_height
                  /\ iter' = iter + 1
                  /\ pc' = IF iter + 1 < MaxScrolls THEN "T_scroll" ELSE "T_return"
    /\ UNCHANGED <<entry, exc, raised_at, html, ret, runVars, siteVars, page,
                   all_items, prev, navs, served, clicks, click_failed, exit_by,
                   quiet, counts>>

\* return extract_testimonials(driver.page_source, url=url), the page holding
\* the blocks the scrolling has mounted
T_Return ==
    /\ pc = "T_return"
    /\ \E n \in 0..Len(TestimonialBlocksOnSite) :
          /\ dom' = n
          /\ Return(TestimonialsExtracted[n], "save_testimonials")
    /\ UNCHANGED <<entry, exc, raised_at, html, runVars, load_more, historyVars>>

\* ------------------------------------------------------------------------
\* The run (__main__)
\* ------------------------------------------------------------------------
\* driver = create_driver(headless=True): the driver, or the failure to start it
create_driver ==
    /\ pc = "create_driver"
    /\ \E ok \in BOOLEAN :
          IF ok
          THEN /\ driver' = "open"
               /\ pc' = "scrape_products"
               /\ UNCHANGED <<exc, raised_at>>
          ELSE /\ exc' = "WebDriverException"
               /\ raised_at' = pc
               /\ pc' = "exit"
               /\ UNCHANGED driver
    /\ UNCHANGED <<entry, html, ret, quit_calls, files, siteVars, localVars, historyVars>>

PathOf(at) ==
    CASE at = "save_products" -> "products.json"
      [] at = "save_reviews" -> "reviews.json"
      [] at = "save_testimonials" -> "testimonials.json"

\* the reviews scraped last: testimonials follow the products
AfterSave_reviews_last(at) ==
    CASE at = "save_products" -> "scrape_testimonials"
      [] at = "save_testimonials" -> "scrape_reviews"
      [] at = "save_reviews" -> "finally"

AfterSave(at) ==
    CASE at = "save_products" -> "scrape_reviews"
      [] at = "save_reviews" -> "scrape_testimonials"
      [] at = "save_testimonials" -> "finally"

\* save_json(path, data): the file holds the list, or the write fails
save_json ==
    /\ pc \in {"save_products", "save_reviews", "save_testimonials"}
    /\ \E ok \in BOOLEAN :
          IF ok
          THEN /\ files' = [files EXCEPT ![PathOf(pc)] = [written |-> TRUE, data |-> ret]]
               /\ pc' = AfterSave(pc)
               /\ UNCHANGED <<exc, raised_at, localVars>>
          ELSE /\ Raise("OSError")
               /\ UNCHANGED files
    /\ UNCHANGED <<entry, html, ret, driver, quit_calls, siteVars, historyVars>>

\* driver.quit() as the last statement of the try block, with no finally
Finally_on_success ==
    /\ pc = "finally"
    /\ IF exc = "none"
       THEN driver' = "quit" /\ quit_calls' = quit_calls + 1
       ELSE UNCHANGED <<driver, quit_calls>>
    /\ pc' = "exit"
    /\ UNCHANGED <<entry, exc, raised_at, html, ret, files, siteVars, localVars,
                   historyVars>>

\* finally: driver.quit()
Finally ==
    /\ pc = "finally"
    /\ driver' = "quit"
    /\ quit_calls' = quit_calls + 1
    /\ pc' = "exit"
    /\ UNCHANGED <<entry, exc, raised_at, html, ret, files, siteVars, localVars,
                   historyVars>>

\* ------------------------------------------------------------------------
\* The specification
\* ------------------------------------------------------------------------
\* the run of the program, or one strategy called with an open driver
Init ==
    /\ \/ entry = "__main__" /\ pc = "create_driver" /\ driver = "none"
       \/ entry \in Strategies /\ pc = entry /\ driver = "open"
    /\ html = <<>>
    /\ Idle

\* the steps of the program
Step ==
    \/ create_driver
    \/ Enter_scrape_products
    \/ P_Navigate
    \/ wait_page
    \/ P_Extract
    \/ P_Return
    \/ Enter_scrape_reviews
    \/ R_Navigate
    \/ R_Init
    \/ R_Find
    \/ R_Click
    \/ R_WaitEffect
    \/ R_Timeout
    \/ R_Check
    \/ R_Return
    \/ Enter_scrape_testimonials
    \/ T_Navigate
    \/ T_Init
    \/ T_Scroll
    \/ T_Return
    \/ save_json
    \/ Finally

Next == Step \/ PageChanges

Spec == Init /\ [][Next]_vars

\* ------------------------------------------------------------------------
\* Claims on scrape_products
\* ------------------------------------------------------------------------
\* what extract_products recovers from the rendering the i-th navigation found
PageItems(i) == extract_products(ProductPages[served[i]], i, ProductsUrl(i))

\* the records of the first n pages navigated to, in page order
ItemsOfPages(n) ==
    LET F[i \in 0..n] == IF i = 0 THEN <<>> ELSE F[i - 1] \o PageItems(i)
    IN  F[n]

\* C1: scrape_products navigates to pages 1, 2, 3, ... in increasing order and
\* stops at the first page whose extraction is empty; when pages 1..5 are not
\* empty and page 6 is, it has navigated exactly 6 times, never to page 7, and
\* it returns exactly the records of pages 1..5.
C1_StopsAtFirstEmptyPage ==
    entry = "scrape_products" =>
        /\ navs = [i \in 1..Len(navs) |-> i]
        /\ \A i \in 1..Len(served) : i < Len(navs) => PageItems(i) # <<>>
        /\ (/\ pc = "returned"
            /\ Len(served) >= 6
            /\ \A i \in 1..5 : PageItems(i) # <<>>
            /\ PageItems(6) = <<>>)
           => /\ navs = <<1, 2, 3, 4, 5, 6>>
              /\ ret = ItemsOfPages(5)

\* five pages of two records each, then an empty page
C1_Witness ==
    /\ entry = "scrape_products" /\ pc = "returned"
    /\ served = <<3, 3, 3, 3, 3, 1>>
    /\ navs = <<1, 2, 3, 4, 5, 6>>
    /\ Len(ret) = 10

\* ------------------------------------------------------------------------
\* Claims on scrape_reviews
\* ------------------------------------------------------------------------
\* C2: when the "Load More" control is found in the first 3 rounds, the count
\* of extracted records grows on each of the 3 clicks and the control is then
\* absent, scrape_reviews has clicked exactly 3 times and returns the records
\* of the document as revealed after the third click.
C2_ThreeClicksThenAbsent ==
    (/\ entry = "scrape_reviews" /\ pc = "returned"
     /\ exit_by = "absent"
     /\ Len(counts) = 4
     /\ ~click_failed)
    => /\ clicks = 3
       /\ \A i \in 1..3 : counts[i] < counts[i + 1]
       /\ ret = extract_reviews(ReviewsPage(dom), ReviewsUrl)
       /\ quiet => Len(ret) = counts[4]

C2_Witness ==
    /\ entry = "scrape_reviews" /\ pc = "returned"
    /\ exit_by = "absent" /\ ~click_failed /\ quiet
    /\ counts = <<0, 1, 2, 3>>
    /\ clicks = 3
    /\ Len(ret) = 3

\* C4: when a round of scrape_reviews ends with a count that does not exceed
\* the count of the round before, the loop is left and the control receives no
\* further click, whether the wait after the click returned or timed out.
C4_NoProgressStops ==
    [][ /\ (/\ pc \in {"R_timeout", "R_check"}
            /\ pc' # pc
            /\ reviews_count(dom) <= prev)
           => (pc' = "R_return" /\ exit_by' = "stalled" /\ clicks' = clicks)
        /\ (exit_by = "stalled" /\ exit_by' = "stalled") => clicks' = clicks
      ]_vars

\* the loop was left for want of progress with the control still in the page
\* and rounds left
C4_Witness ==
    /\ pc = "R_return" /\ exit_by = "stalled"
    /\ clicks >= 1
    /\ load_more
    /\ iter + 1 < MaxClicks
    /\ reviews_count(dom) <= prev

InteractionFailures ==
    {"ElementClickInterceptedException", "StaleElementReferenceException"}

\* C5 as stated: once safe_click has ended in an interaction failure (its
\* script click failed as well), the control receives no further click
\* attempt and scrape_reviews returns its records.
C5_NoAttemptAfterFailedClick ==
    click_failed => (pc # "R_click" /\ exc = "none")

\* C5, amended: an interaction failure that leaves safe_click never leaves
\* scrape_reviews. On a click-intercepted failure the control is clicked once
\* more by script and, when that fails too, the loop is left with no further
\* click; on a stale element the round is given up and the loop goes on with
\* its next round, as long as rounds are left. A driver failure of another
\* kind does leave scrape_reviews.
C5_FailedClickHandled ==
    [][ (pc = "R_click" /\ pc' # pc) =>
           /\ exc' \notin InteractionFailures
           /\ clicks' \in {clicks, clicks + 1}
           /\ (click_failed' /\ ~click_failed) =>
                 \/ pc' = "R_waitfx" /\ clicks' = clicks + 1
                 \/ pc' = "R_return" /\ exit_by' = "click_failed" /\ clicks' = clicks
                 \/ pc' = "R_find" /\ iter' = iter + 1 /\ iter' < MaxClicks /\ clicks' = clicks
                 \/ pc' = "R_return" /\ exit_by' = "cap" /\ iter' = MaxClicks /\ clicks' = clicks
           /\ exc' # "none" => (exc' = "WebDriverException" /\ clicks' = clicks)
      ]_vars

\* a click is attempted after an earlier safe_click ended in a failure
C5_Witness ==
    /\ entry = "scrape_reviews"
    /\ click_failed /\ pc = "R_click" /\ clicks = 0 /\ iter >= 1

\* C6: no wait of the pagination controller raises when it times out: the
\* strategy goes on to its own check and ends normally.
C6_NoWaitTimeoutRaises ==
    exc # "TimeoutException"

\* ------------------------------------------------------------------------
\* Claims on scrape_testimonials
\* ------------------------------------------------------------------------
Plateau200 == <<100, 200, 200, 200>>

Plateau300 == <<100, 200, 200, 200, 300, 300, 300, 300>>

\* C3 as stated: with the readings 100, 200, 200, 200 the loop is left, and no
\* later height is read.
C3_StopsAtFirstPlateau ==
    (/\ entry = "scrape_testimonials"
     /\ Len(readings) >= 4
     /\ SubSeq(readings, 1, 4) = Plateau200)
    => (Len(readings) = 4 /\ pc # "T_scroll")

\* C3, amended: the loop is left for stability only after 3 rounds in a row
\* that read the height of the round before, that is after 4 equal readings
\* in a row. With the readings 100, 200, 200, 200 it counts 2 such rounds and
\* scrolls on; with 100, 200, 200, 200, 300, 300, 300, 300 it is left after
\* the eighth reading.
C3_StopsAfterThreeUnchangedRounds ==
    entry = "scrape_testimonials" =>
        /\ (readings = Plateau200 => (pc = "T_scroll" /\ stable = 2))
        /\ (readings = Plateau300 => (pc \in {"T_return", "returned"}))
        /\ (pc = "T_return" /\ Len(readings) < MaxScrolls + 1) =>
              /\ Len(readings) >= StableRounds + 1
              /\ \A i \in (Len(readings) - StableRounds)..Len(readings) :
                    readings[i] = readings[Len(readings)]
        /\ pc = "T_scroll" =>
              /\ stable < StableRounds
              /\ \A i \in (Len(readings) - stable)..Len(readings) :
                    readings[i] = last_height
              /\ stable < Len(readings) - 1 =>
                    readings[Len(readings) - stable - 1] # last_height

\* the loop is left at the eighth reading, with scroll rounds to spare
C3_Witness ==
    /\ entry = "scrape_testimonials"
    /\ readings = Plateau300
    /\ pc = "T_return"
    /\ iter + 1 < MaxScrolls

\* ------------------------------------------------------------------------
\* Claims on the strategies together
\* ------------------------------------------------------------------------
Ended == pc \in {"returned", "raised", "exit"}

\* the kinds in the order of the run
KindPaths == <<"products.json", "reviews.json", "testimonials.json">>

\* the kind (1..3) the run is at in a place; 0 before the first, 4 at the end
KindAt(at) ==
    CASE at \in {"scrape_products", "P_get", "P_wait", "P_extract", "P_return",
                 "save_products"} -> 1
      [] at \in {"scrape_reviews", "R_get", "R_wait", "R_init", "R_find", "R_click",
                 "R_waitfx", "R_timeout", "R_check", "R_return", "save_reviews"} -> 2
      [] at \in {"scrape_testimonials", "T_get", "T_wait", "T_init", "T_scroll",
                 "T_return", "save_testimonials"} -> 3
      [] at = "create_driver" -> 0
      [] OTHER -> 4

\* the navigations, the rounds of the click loop and the scroll rounds begun
\* stay within max_pages, max_clicks and max_scrolls
WithinBounds ==
    /\ Len(navs) <= MaxPages
    /\ pc \in {"R_find", "R_click", "R_waitfx", "R_timeout", "R_check", "R_return"}
          => (iter <= MaxClicks /\ clicks <= iter + 1 /\ clicks <= MaxClicks)
    /\ pc \in {"R_click", "R_waitfx", "R_timeout", "R_check"} => iter < MaxClicks
    /\ pc \in {"T_scroll", "T_return"} => iter <= MaxScrolls
    /\ pc = "T_scroll" => iter < MaxScrolls
    /\ Len(readings) <= MaxScrolls + 1

\* C9 as stated: a pagination strategy that has ended has returned a result.
C9_AlwaysReturnsAResult ==
    (entry \in Strategies /\ Ended) => pc = "returned"

\* the steps a strategy can still take from a place of its own, at most
ProductsRank ==
    CASE pc = "scrape_products" -> 3 * MaxPages + 1
      [] pc = "P_get" -> 3 * (MaxPages - page) + 3
      [] pc = "P_wait" -> 3 * (MaxPages - page) + 2
      [] pc = "P_extract" -> 3 * (MaxPages - page) + 1
      [] OTHER -> 0

ReviewsRank ==
    CASE pc = "scrape_reviews" -> 5 * MaxClicks + 9
      [] pc = "R_get" -> 5 * MaxClicks + 8
      [] pc = "R_wait" -> 5 * MaxClicks + 7
      [] pc = "R_init" -> 5 * MaxClicks + 6
      [] pc = "R_find" -> 5 * (MaxClicks - iter) + 5
      [] pc = "R_click" -> 5 * (MaxClicks - iter) + 4
      [] pc = "R_waitfx" -> 5 * (MaxClicks - iter) + 3
      [] pc = "R_timeout" -> 5 * (MaxClicks - iter) + 2
      [] pc = "R_check" -> 5 * (MaxClicks - iter) + 1
      [] OTHER -> 0

TestimonialsRank ==
    CASE pc = "scrape_testimonials" -> MaxScrolls + 5
      [] pc = "T_get" -> MaxScrolls + 4
      [] pc = "T_wait" -> MaxScrolls + 3
      [] pc = "T_init" -> MaxScrolls + 2
      [] pc = "T_scroll" -> (MaxScrolls - iter) + 1
      [] OTHER -> 0

\* the steps the execution can still take, at most: those of the strategy it
\* is in and, in a run, those of the saves and strategies that follow
Rank ==
    CASE Ended -> 0
      [] pc = "finally" -> 1
      [] pc = "save_testimonials" -> 2
      [] KindAt(pc) = 3 -> 3 + TestimonialsRank
      [] pc = "save_reviews" -> MaxScrolls + 9
      [] KindAt(pc) = 2 -> MaxScrolls + 10 + ReviewsRank
      [] pc = "save_products" -> MaxScrolls + 5 * MaxClicks + 20
      [] KindAt(pc) = 1 -> MaxScrolls + 5 * MaxClicks + 21 + ProductsRank
      [] pc = "create_driver" -> MaxScrolls + 5 * MaxClicks + 3 * MaxPages + 23

\* C9, amended: every pagination strategy ends, whatever the page does, within
\* max_pages navigations, max_clicks rounds of the click loop (the rounds given
\* up on a stale element counted) and max_scrolls scroll rounds: each of its
\* steps lowers the number of steps it can still take. It ends by returning a
\* result or by passing on the exception of a driver call (navigation,
\* page-ready wait, click).
C9_EndsWithinBounds ==
    /\ [](/\ WithinBounds
          /\ pc = "raised" => exc # "none"
          /\ pc = "returned" => exc = "none")
    /\ [][PageChanges \/ Rank' < Rank]_vars

\* the click loop ran out of rounds, one of them given up on a stale element
C9_Witness ==
    /\ entry = "scrape_reviews" /\ pc = "R_return"
    /\ exit_by = "cap" /\ iter = MaxClicks
    /\ click_failed /\ clicks < MaxClicks

\* ------------------------------------------------------------------------
\* Claims on the run
\* ------------------------------------------------------------------------
\* C7: once the run has acquired the driver, the driver is quit on every way
\* out of the run, after the three scrapes as after an exception of a scrape
\* or of a save, and it is quit exactly once.
C7_DriverReleasedOnce ==
    entry = "__main__" =>
        /\ quit_calls <= 1
        /\ driver = "quit" <=> quit_calls = 1
        /\ driver = "none" <=> pc = "create_driver" \/ raised_at = "create_driver"
        /\ pc = "exit" => driver # "open"
        /\ driver = "quit" => pc = "exit"

\* the run is left on the exception of a save, the driver quit
C7_Witness ==
    /\ entry = "__main__" /\ pc = "exit"
    /\ exc = "OSError" /\ raised_at = "save_reviews"
    /\ driver = "quit" /\ quit_calls = 1

\* C8 as stated: whatever happens in the scrape of one kind, the run ends
\* with the file of every kind written.
C8_EveryKindSaved ==
    (/\ entry = "__main__" /\ pc = "exit"
     /\ raised_at \in {"none", "P_get", "P_wait", "R_get", "R_wait", "R_click",
                       "T_get", "T_wait"})
    => \A f \in Paths : files[f].written

\* C8, amended: a kind for which nothing is extracted is saved as an empty
\* list and the run goes on with the next kind; a scrape (or a save) that
\* raises ends the run: the kinds before it are saved, its own kind and the
\* kinds after it are not, and the exception leaves the run.
C8_FailedScrapeEndsRun ==
    entry = "__main__" =>
        /\ \A k \in 1..3 :
              files[KindPaths[k]].written <=>
                 IF exc = "none" THEN KindAt(pc) > k \/ pc = "exit"
                 ELSE KindAt(raised_at) > k
        /\ exc # "none" => pc \in {"finally", "exit"}
        /\ (pc = "exit" /\ exc = "none") => \A f \in Paths : files[f].written

\* the products are saved as an empty list, the scrape of the reviews raised
C8_Witness ==
    /\ entry = "__main__" /\ pc = "exit"
    /\ files["products.json"] = [written |-> TRUE, data |-> <<>>]
    /\ exc = "WebDriverException" /\ raised_at = "R_get"
    /\ ~files["reviews.json"].written /\ ~files["testimonials.json"].written

\* ------------------------------------------------------------------------
\* The extractors, called directly
\* ------------------------------------------------------------------------
T_Long81(c) == Rep(80, "a") \o <<c>>

T_Long80b == Rep(79, "a") \o <<"b", "x">>

\* "Now only $19.99 today!"
T_Offer ==
    <<"N", "o", "w", " ", "o", "n", "l", "y", " ", "$", "1", "9", ".", "9", "9",
      " ", "t", "o", "d", "a", "y", "!">>

\* a date text that names no day of the calendar
T_Smarch == <<"2", "0", "2", "3", "-", "1", "3", "-", "4", "5">>

ProductPool ==
    { Card("div", {"card"}, <<El("h3", {}, T_Tea), El("p", {}, T_Nice),
                              El("span", {"price"}, T_5)>>),
      Card("article", {}, <<El("a", {}, T_Tea), El("p", {}, T_Good),
                            El("span", {"product-price"}, T_5)>>),
      Card("div", {"product-card"}, <<El("h2", {}, T_Tea), El("span", {"price"}, T_6)>>),
      Card("div", {"card"}, <<El("h3", {}, T_Tea), El("p", {}, T_Nice)>>),
      Card("div", {"card"}, <<El("p", {}, T_Nice), El("span", {"price"}, T_5)>>),
      Card("div", {"banner"}, <<El("h3", {}, T_Nice)>>),
      Card("div", {"card"}, <<El("h3", {}, T_Tea), El("p", {}, T_Offer)>>),
      Card("div", {"card"}, <<El("h3", {}, <<"A">>), El("span", {"price"}, T_5)>>) }

ReviewPool ==
    { Card("div", {"review"}, <<El("span", {}, T_May18), El("p", {}, T_Long81("x"))>>),
      Card("li", {}, <<El("span", {}, T_May18), El("p", {}, T_Long81("y"))>>),
      Card("div", {"review"}, <<El("span", {}, T_May18), El("p", {}, T_Long80b)>>),
      Card("article", {}, <<El("span", {}, T_Jun02), El("p", {}, T_Long81("x"))>>),
      Card("div", {"review"}, <<El("span", {}, T_May18), El("p", {}, T_Meh)>>),
      Card("div", {"review"}, <<El("p", {}, T_Long81("x"))>>),
      Card("div", {"review"}, <<El("span", {}, T_Smarch), El("p", {}, T_Great)>>),
      Card("article", {}, <<El("span", {}, T_Jun02), El("p", {}, T_Poor),
                            El("p", {}, T_Long)>>),
      Card("li", {}, <<El("p", {}, T_May18), El("span", {}, T_Great)>>) }

TestimonialPool ==
    { Card("div", {"testimonial"}, <<El("strong", {}, T_Ann), El("p", {}, T_Long81("x"))>>),
      Card("div", {"card"}, <<El("span", {"author"}, T_Ann), El("p", {}, T_Long81("y"))>>),
      Card("div", {"testimonial"}, <<El("p", {}, T_Long81("x"))>>),
      Card("blockquote", {}, <<El("#text", {}, T_Long81("y"))>>),
      Card("div", {"testimonial"}, <<El("strong", {}, T_Bob), El("p", {}, T_Long80b)>>),
      Card("div", {"testimonial"}, <<El("strong", {}, T_Ann), El("p", {}, T_Meh)>>),
      Card("div", {"testimonial"}, <<El("strong", {}, T_Bob), El("#text", {}, T_Fine)>>) }

\* the documents of at most MaxCards containers of a pool
DocsOver(pool) == UNION {[1..n -> pool] : n \in 0..MaxCards}

ExtractFns == {"extract_products", "extract_reviews", "extract_testimonials"}

InitExtract ==
    /\ entry \in ExtractFns
    /\ html \in DocsOver(CASE entry = "extract_products" -> ProductPool
                           [] entry = "extract_reviews" -> ReviewPool
                           [] OTHER -> TestimonialPool)
    /\ pc = "call"
    /\ driver = "none"
    /\ Idle

\* the candidates of the call before the dedup
Candidates ==
    CASE entry = "extract_products" -> product_items(html, 1, ProductsUrl(1))
      [] entry = "extract_reviews" -> review_items(html, ReviewsUrl)
      [] OTHER -> testimonial_items(html, TestimonialsUrl)

Call_extract_products ==
    /\ entry = "extract_products" /\ pc = "call"
    /\ ret' = extract_products(html, 1, ProductsUrl(1))
    /\ pc' = "returned"
    /\ UNCHANGED <<entry, exc, raised_at, html, runVars, siteVars, localVars, historyVars>>

Call_extract_reviews ==
    /\ entry = "extract_reviews" /\ pc = "call"
    /\ ret' = extract_reviews(html, ReviewsUrl)
    /\ pc' = "returned"
    /\ UNCHANGED <<entry, exc, raised_at, html, runVars, siteVars, localVars, historyVars>>

Call_extract_testimonials ==
    /\ entry = "extract_testimonials" /\ pc = "call"
    /\ ret' = extract_testimonials(html, TestimonialsUrl)
    /\ pc' = "returned"
    /\ UNCHANGED <<entry, exc, raised_at, html, runVars, siteVars, localVars, historyVars>>

NextExtract ==
    \/ Call_extract_products
    \/ Call_extract_reviews
    \/ Call_extract_testimonials

SpecExtract == InitExtract /\ [][NextExtract]_vars

\* ------------------------------------------------------------------------
\* Claims on the extractors
\* ------------------------------------------------------------------------
\* the dedup key as the data model states it
StatedKey(it) ==
    CASE entry = "extract_products" -> <<it.name, it.price>>
      [] entry = "extract_reviews" -> <<it.date, SubSeq(it.text, 1, IF Len(it.text) < 80 THEN Len(it.text) ELSE 80)>>
      [] OTHER -> <<IF it.author = None THEN <<>> ELSE it.author,
                    SubSeq(it.text, 1, IF Len(it.text) < 80 THEN Len(it.text) ELSE 80)>>

\* C10: the list one extraction pass returns holds no two records of one
\* dedup key ((name, price); (date, first 80 characters of the text);
\* (author or empty, first 80 characters of the text)); every candidate's key
\* is kept once, by the first candidate of that key in document order, and
\* the records keep the candidates' order.
C10_NoTwoRecordsShareAKey ==
    (pc = "returned" /\ entry \in ExtractFns) =>
        LET cand   == Candidates
            keys   == [j \in 1..Len(cand) |-> StatedKey(cand[j])]
            marked == [j \in 1..Len(cand) |->
                          [it |-> cand[j], first |-> \A h \in 1..(j - 1) : keys[h] # keys[j]]]
            firsts == SelectSeq(marked, LAMBDA m : m.first)
        IN  /\ \A a, b \in 1..Len(ret) :
                  a # b => StatedKey(ret[a]) # StatedKey(ret[b])
            /\ ret = [a \in 1..Len(firsts) |-> firsts[a].it]

\* two candidates whose texts differ only after the 80th character were
\* collapsed to the first of them
C10_Witness ==
    /\ pc = "returned" /\ entry = "extract_reviews"
    /\ Len(html) = 2 /\ Len(ret) = 1
    /\ LET cand == Candidates
       IN  /\ Len(cand) = 2
           /\ cand[1].text # cand[2].text
           /\ SubSeq(cand[1].text, 1, 80) = SubSeq(cand[2].text, 1, 80)
           /\ ret[1] = cand[1]

\* ------------------------------------------------------------------------
\* The extractors, called on a page that reveals its cards
\* ------------------------------------------------------------------------
T_Thanks == T_Fine \o <<",">> \o <<" ">> \o <<"t", "h", "a", "n", "k", "s">>

\* the cards a page can reveal, per extractor
RevealPool(fn) ==
    CASE fn = "extract_products" -> {ProductPages[3][i] : i \in 1..Len(ProductPages[3])}
      [] fn = "extract_reviews" ->
            { Card("div", {"review"}, <<El("span", {}, T_May18), El("p", {}, T_Poor)>>),
              Card("li", {}, <<El("span", {}, T_Jun02), El("p", {}, T_Long)>>),
              Card("article", {}, <<El("span", {}, T_Jun02), El("p", {}, T_Thanks)>>) }
      [] OTHER -> {TestimonialBlocksOnSite[i] : i \in 1..Len(TestimonialBlocksOnSite)}

\* the class of an element that encloses the cards of a listing
ListClass(fn) ==
    CASE fn = "extract_products" -> "products"
      [] fn = "extract_reviews" -> "reviews"
      [] OTHER -> "testimonials"

\* the descendants of the element that encloses `cards`, in document order
Descendants(cards) ==
    LET F[i \in 0..Len(cards)] == IF i = 0 THEN <<>> ELSE F[i - 1] \o cards[i].elems
    IN  F[Len(cards)]

\* the document <div class="..."> cards </div>: soup.select meets the
\* enclosing element first, then the cards in it
Enclosed(fn, cards) == <<Card("div", {ListClass(fn)}, Descendants(cards))>> \o cards

IsEnclosed(doc) ==
    doc # <<>> /\ doc[1].cls \cap {"products", "reviews", "testimonials"} # {}

\* the cards of a document, enclosed or not
CardsOf(doc) == IF IsEnclosed(doc) THEN Tail(doc) ELSE doc

\* the page before any card is mounted, with or without an enclosing element
InitReveal ==
    /\ entry \in ExtractFns
    /\ html \in {<<>>, Enclosed(entry, <<>>)}
    /\ pc = "call"
    /\ driver = "none"
    /\ Idle

\* the page appends one more sibling card; the records of the render before
\* are kept in all_items and the extractor is called again
Reveal ==
    /\ pc = "returned"
    /\ Len(CardsOf(html)) < MaxCards
    /\ \E c \in RevealPool(entry) :
          html' = IF IsEnclosed(html)
                  THEN Enclosed(entry, Append(CardsOf(html), c))
                  ELSE Append(html, c)
    /\ all_items' = ret
    /\ iter' = iter + 1
    /\ pc' = "call"
    /\ UNCHANGED <<entry, exc, raised_at, ret, runVars, siteVars, page, prev,
                   last_height, stable, historyVars>>

NextReveal ==
    \/ NextExtract
    \/ Reveal

SpecReveal == InitReveal /\ [][NextReveal]_vars

\* the dedup keys of a list of records
KeysOf(items) == {StatedKey(items[i]) : i \in 1..Len(items)}

\* C11: when a document is an earlier document with sibling cards appended,
\* every dedup key extracted from the earlier document is extracted from it
\* too, also when the cards sit in an element that matches a card selector.
C11_MonotoneUnderReveal ==
    (pc = "returned" /\ iter >= 1) => KeysOf(all_items) \subseteq KeysOf(ret)

\* ------------------------------------------------------------------------
\* The consumers of the persisted files: app.py and precompute_sentiment.py
\* ------------------------------------------------------------------------
PRODUCTS_FILE == "products.json"

TESTIMONIALS_FILE == "testimonials.json"

REVIEWS_SCORED_FILE == "reviews_scored.json"

REVIEWS_RAW_FILE == "reviews.json"

IN_PATH == "reviews.json"

OUT_PATH == "reviews_scored.json"

ConsumedPaths == Paths \cup {REVIEWS_SCORED_FILE}

Consumers == {"app.py", "precompute_sentiment.main"}

\* what a run of the scraper can have left in a file
StoredIn(path) ==
    CASE path = PRODUCTS_FILE -> {<<>>, ProductsExtracted[3][1]}
      [] path = TESTIMONIALS_FILE -> {<<>>, TestimonialsExtracted[2]}
      [] OTHER -> {<<>>, ReviewsExtracted[2]}

\* path.exists()
exists(fs, path) == fs[path].written

\* load_json(path): [] for a missing file, else the list the file holds
load_json(fs, path) == IF ~exists(fs, path) THEN <<>> ELSE fs[path].data

\* the labels and the scores of the sentiment pipeline
Labels == {"POSITIVE", "NEGATIVE"}

Scores == {60, 99}

\* item["sentiment"] = r["label"]; item["confidence"] = float(r["score"])
scored(item, r) ==
    [date |-> item.date, text |-> item.text, source_url |-> item.source_url,
     sentiment |-> r.label, confidence |-> r.score]

InitConsume ==
    /\ entry \in Consumers
    /\ pc = "call"
    /\ driver = "none"
    /\ html = <<>>
    /\ exc = "none" /\ raised_at = "none" /\ ret = <<>>
    /\ quit_calls = 0
    /\ files \in [ConsumedPaths -> [written : BOOLEAN, data : UNION {StoredIn(f) : f \in ConsumedPaths}]]
    /\ \A f \in ConsumedPaths :
          IF files[f].written THEN files[f].data \in StoredIn(f) ELSE files[f].data = <<>>
    /\ dom = 0 /\ load_more = FALSE
    /\ LocalsReset /\ HistoryReset

\* products_raw = load_json(PRODUCTS_FILE)
App_load_products ==
    /\ entry = "app.py" /\ pc = "call"
    /\ ret' = <<load_json(files, PRODUCTS_FILE)>>
    /\ pc' = "load_testimonials"
    /\ UNCHANGED <<entry, exc, raised_at, html, runVars, siteVars, localVars, historyVars>>

\* testimonials_raw = load_json(TESTIMONIALS_FILE)
App_load_testimonials ==
    /\ entry = "app.py" /\ pc = "load_testimonials"
    /\ ret' = Append(ret, load_json(files, TESTIMONIALS_FILE))
    /\ pc' = "load_reviews"
    /\ UNCHANGED <<entry, exc, raised_at, html, runVars, siteVars, localVars, historyVars>>

\* reviews_raw = load_json(REVIEWS_SCORED_FILE), and the raw file when that
\* list is empty
reviews_raw(fs) ==
    IF load_json(fs, REVIEWS_SCORED_FILE) = <<>>
    THEN load_json(fs, REVIEWS_RAW_FILE)
    ELSE load_json(fs, REVIEWS_SCORED_FILE)

App_load_reviews ==
    /\ entry = "app.py" /\ pc = "load_reviews"
    /\ ret' = Append(ret, reviews_raw(files))
    /\ pc' = "loaded"
    /\ UNCHANGED <<entry, exc, raised_at, html, runVars, siteVars, localVars, historyVars>>

\* main(): if not IN_PATH.exists(): raise FileNotFoundError
Main_exists ==
    /\ entry = "precompute_sentiment.main" /\ pc = "call"
    /\ IF ~exists(files, IN_PATH)
       THEN /\ exc' = "FileNotFoundError"
            /\ raised_at' = pc
            /\ pc' = "raised"
       ELSE /\ pc' = "read"
            /\ UNCHANGED <<exc, raised_at>>
    /\ UNCHANGED <<entry, html, ret, runVars, siteVars, localVars, historyVars>>

\* data = json.loads(...); if not data: OUT_PATH.write_text("[]"); return
Main_read ==
    /\ entry = "precompute_sentiment.main" /\ pc = "read"
    /\ IF files[IN_PATH].data = <<>>
       THEN /\ files' = [files EXCEPT ![OUT_PATH] = [written |-> TRUE, data |-> <<>>]]
            /\ pc' = "returned"
            /\ UNCHANGED all_items
       ELSE /\ all_items' = files[IN_PATH].data
            /\ pc' = "score"
            /\ UNCHANGED files
    /\ UNCHANGED <<entry, exc, raised_at, html, ret, driver, quit_calls, siteVars,
                   page, prev, iter, last_height, stable, historyVars>>

\* results = pipe(texts, ...); every item gets its label and score; the
\* scored list is written to OUT_PATH
Main_score ==
    /\ entry = "precompute_sentiment.main" /\ pc = "score"
    /\ \E results \in [1..Len(all_items) -> [label : Labels, score : Scores]] :
          files' = [files EXCEPT ![OUT_PATH] =
                       [written |-> TRUE,
                        data |-> [i \in 1..Len(all_items) |-> scored(all_items[i], results[i])]]]
    /\ pc' = "returned"
    /\ UNCHANGED <<entry, exc, raised_at, html, ret, driver, quit_calls, siteVars,
                   localVars, historyVars>>

NextConsume ==
    \/ App_load_products
    \/ App_load_testimonials
    \/ App_load_reviews
    \/ Main_exists
    \/ Main_read
    \/ Main_score

SpecConsume == InitConsume /\ [][NextConsume]_vars

\* a file that is missing or holds the empty array
NoData(path) == ~files[path].written \/ files[path].data = <<>>

\* C12: every consumer treats a missing file and a file holding the empty
\* array as "no data" and goes on without raising: the loader of the dashboard
\* yields the empty list for it, and the sentiment step ends without an error.
C12_NoDataIsNotAnError ==
    /\ entry \in Consumers => exc = "none"
    /\ (entry = "app.py" /\ pc = "loaded") =>
          /\ NoData(PRODUCTS_FILE) => ret[1] = <<>>
          /\ NoData(TESTIMONIALS_FILE) => ret[2] = <<>>
          /\ (NoData(REVIEWS_SCORED_FILE) /\ NoData(REVIEWS_RAW_FILE)) => ret[3] = <<>>
    /\ (entry = "precompute_sentiment.main" /\ NoData(IN_PATH)) => pc # "raised"

\* ------------------------------------------------------------------------
\* Claims on the fields of the extracted records
\* ------------------------------------------------------------------------
\* the number a text of digits writes
NumberOf(digits) ==
    LET val(c) == CHOOSE n \in 0..9 :
                     <<"0", "1", "2", "3", "4", "5", "6", "7", "8", "9">>[n + 1] = c
        F[i \in 0..Len(digits)] == IF i = 0 THEN 0 ELSE 10 * F[i - 1] + val(digits[i])
    IN  F[Len(digits)]

DaysIn(y, m) ==
    IF m \in {4, 6, 9, 11} THEN 30
    ELSE IF m # 2 THEN 31
    ELSE IF y % 4 = 0 /\ (y % 100 # 0 \/ y % 400 = 0) THEN 29 ELSE 28

\* the text YYYY-MM-DD names a day of the calendar
IsCalendarDate(d) ==
    /\ NumberOf(SubSeq(d, 6, 7)) \in 1..12
    /\ NumberOf(SubSeq(d, 9, 10)) \in
          1..DaysIn(NumberOf(SubSeq(d, 1, 4)), NumberOf(SubSeq(d, 6, 7)))

\* C13: every record extract_reviews returns has a date that is a day of the
\* calendar; a candidate whose YYYY-MM-DD text names no such day (month not in
\* 1..12, day not in the month) is discarded.
C13_DatesAreCalendarDates ==
    (pc = "returned" /\ entry = "extract_reviews") =>
        \A i \in 1..Len(ret) : IsCalendarDate(ret[i].date)

\* the leftmost text of s of the shape `$` digits, then optionally a point and
\* two digits; "" when s holds none
CurrencyIn(s) ==
    LET starts == {i \in 1..Len(s) : s[i] = "$" /\ i < Len(s) /\ s[i + 1] \in Digit}
    IN  IF starts = {} THEN <<>>
        ELSE LET i == CHOOSE a \in starts : \A b \in starts : a <= b
                 j == CHOOSE a \in (i + 1)..Len(s) :
                         /\ \A k \in (i + 1)..a : s[k] \in Digit
                         /\ (a = Len(s) \/ s[a + 1] \notin Digit)
             IN  IF j + 3 <= Len(s) /\ s[j + 1] = "." /\ s[j + 2] \in Digit /\ s[j + 3] \in Digit
                 THEN SubSeq(s, i, j + 3)
                 ELSE SubSeq(s, i, j)

\* C14: a product container with a name and no price-classed element, whose
\* text holds a currency text (`$`, digits, optionally two decimals), gives a
\* record whose price is that currency text, not an absent price.
C14_PriceFromContainerText ==
    (pc = "returned" /\ entry = "extract_products") =>
        \A k \in 1..Len(html) :
            ( /\ Matches(html[k], "div.card, article, div[class*='product']")
              /\ _safe_text(select_one(html[k], "h2, h3, h2 a, h3 a, a")) # <<>>
              /\ select_one(html[k], ".price, [class*='price']") = NoneEl
              /\ CurrencyIn(_safe_text(html[k])) # <<>> )
            => \E i \in 1..Len(ret) :
                  /\ ret[i].name = _safe_text(select_one(html[k], "h2, h3, h2 a, h3 a, a"))
                  /\ ret[i].price = CurrencyIn(_safe_text(html[k]))

\* C16: extract_products rejects every container whose name is shorter than
\* 2 characters: no record it returns has a name of length 0 or 1.
C16_NoShortNames ==
    (pc = "returned" /\ entry = "extract_products") =>
        \A i \in 1..Len(ret) : Len(ret[i].name) >= 2

\* ------------------------------------------------------------------------
\* Claims on the scroll loop of scrape_testimonials
\* ------------------------------------------------------------------------
\* the scroll rounds done so far: one reading before the loop, one per round
RoundsDone(r) == Len(r) - 1

\* C15: in the scroll loop a round that reads the height of the round before
\* adds one to the stable counter and a round that reads another height sets
\* it to 0; the loop is left before its cap only when the counter has reached
\* 3, so one or two unchanged rounds followed by a change never end it; and
\* after the loop, left either way, the page is extracted exactly once, the
\* extraction being what the call returns.
C15_StableCounterAndOneExtraction ==
    [][ entry = "scrape_testimonials" =>
          /\ pc = "T_scroll" =>
                /\ Len(readings') = Len(readings) + 1
                /\ ret' = ret
                /\ IF readings'[Len(readings')] = readings[Len(readings)]
                   THEN stable' = stable + 1
                   ELSE stable' = 0 /\ last_height' = readings'[Len(readings')]
                /\ (pc' # "T_scroll" /\ RoundsDone(readings') < MaxScrolls) => stable' = 3
                /\ stable' < 3 =>
                      pc' = (IF RoundsDone(readings') < MaxScrolls THEN "T_scroll" ELSE "T_return")
                /\ pc' \in {"T_scroll", "T_return"}
          /\ pc = "T_return" =>
                /\ pc' = "returned"
                /\ readings' = readings
                /\ \E n \in 0..Len(TestimonialBlocksOnSite) :
                      ret' = extract_testimonials(TestimonialsPage(n), TestimonialsUrl)
          /\ pc = "returned" => (pc' = "returned" /\ ret' = ret)
      ]_vars

\* two unchanged rounds, a change, then three unchanged rounds: the loop was
\* left with rounds to spare and the page with all its blocks was extracted
C15_Witness ==
    /\ entry = "scrape_testimonials"
    /\ pc = "returned"
    /\ readings = <<100, 100, 100, 200, 200, 200, 200>>
    /\ ret = TestimonialsExtracted[Len(TestimonialBlocksOnSite)]

\* ------------------------------------------------------------------------
\* Claims on the text of a review
\* ------------------------------------------------------------------------
\* the texts of the paragraphs of c that hold no date, in document order
DatelessParagraphs(c) ==
    LET ps    == select_in(c, "p")
        texts == [i \in 1..Len(ps) |-> _safe_text(ps[i])]
    IN  SelectSeq(texts, LAMBDA t : t # <<>> /\ DATE_RE_search(t) = 0)

\* the paragraph text a rule chooses among ts: the first, or the first of the
\* longest; "" when ts is empty
ChosenParagraph(ts, rule) ==
    IF ts = <<>> THEN <<>>
    ELSE IF rule = "first" THEN ts[1]
    ELSE ts[CHOOSE i \in 1..Len(ts) :
                \A j \in 1..Len(ts) :
                    /\ Len(ts[j]) <= Len(ts[i])
                    /\ j < i => Len(ts[j]) < Len(ts[i])]

\* the review text of card c under a rule: the chosen paragraph, or, with no
\* paragraph to choose, the text of the card without its dates
ExpectedText(c, chosen) ==
    IF chosen # <<>> THEN chosen ELSE _clean(DATE_RE_sub(_safe_text(c)))

\* the date and the text of the record of card c under a rule
ExpectedReview(c, rule) ==
    [date |-> SubSeq(_safe_text(c), DATE_RE_search(_safe_text(c)),
                     DATE_RE_search(_safe_text(c)) + 9),
     text |-> ExpectedText(c, ChosenParagraph(DatelessParagraphs(c), rule))]

\* the first 80 characters of a text, or all of a shorter one
First80(t) == SubSeq(t, 1, IF Len(t) < 80 THEN Len(t) ELSE 80)

\* the records returned are those of the dated cards under the rule: every
\* record is the expected one of a card, and every dated card whose expected
\* text has 5 characters or more has a record of its key
ReviewTextsFollow(cards, rule) ==
    /\ \A i \in 1..Len(ret) :
          \E k \in 1..Len(cards) :
              /\ DATE_RE_search(_safe_text(cards[k])) # 0
              /\ ret[i].date = ExpectedReview(cards[k], rule).date
              /\ ret[i].text = ExpectedReview(cards[k], rule).text
    /\ \A k \in 1..Len(cards) :
          ( /\ DATE_RE_search(_safe_text(cards[k])) # 0
            /\ Len(ExpectedReview(cards[k], rule).text) >= 5 )
          => \E i \in 1..Len(ret) :
                /\ ret[i].date = ExpectedReview(cards[k], rule).date
                /\ First80(ret[i].text) = First80(ExpectedReview(cards[k], rule).text)

\* C17 as stated: the review text is the first paragraph of the card, in
\* document order, that holds no date; with no such paragraph it is the text
\* of the whole card with the date removed.
C17_FirstDatelessParagraph ==
    (pc = "returned" /\ entry = "extract_reviews") =>
        ReviewTextsFollow(select(html, "div.review, div[class*='review'], div.card, article, li"),
                          "first")

\* C17, amended: the review text is the longest paragraph of the card that
\* holds no date, the first of them when several are longest; with no such
\* paragraph it is the text of the whole card with every date removed and the
\* white space normalised.
C17_LongestDatelessParagraph ==
    (pc = "returned" /\ entry = "extract_reviews") =>
        ReviewTextsFollow(select(html, "div.review, div[class*='review'], div.card, article, li"),
                          "longest")

\* a card whose second paragraph is the longer one gave that paragraph, and a
\* card whose only paragraph holds the date gave the rest of its text
C17_Witness ==
    /\ pc = "returned" /\ entry = "extract_reviews"
    /\ Len(html) = 2
    /\ Len(select_in(html[1], "p")) = 2
    /\ _safe_text(select_in(html[1], "p")[1]) = T_Poor
    /\ _safe_text(select_in(html[1], "p")[2]) = T_Long
    /\ DatelessParagraphs(html[2]) = <<>>
    /\ Len(ret) = 2
    /\ ret[1].text = T_Long
    /\ ret[2].text = T_Great

\* ------------------------------------------------------------------------
\* Claims on the text of a testimonial
\* ------------------------------------------------------------------------
\* C18: extract_testimonials takes the text of a container that is no
\* blockquote from its first paragraph and, when it has no paragraph, from the
\* whole container; a candidate is rejected only when that text, normalised,
\* is shorter than 10 characters, so a container without a paragraph and with
\* 10 characters of text or more gives a record.
C18_TextOfParagraphlessContainer ==
    (pc = "returned" /\ entry = "extract_testimonials") =>
        \A k \in 1..Len(html) :
            ( /\ Matches(html[k], "div.testimonial, div[class*='testimonial'], blockquote, div.card, article")
              /\ html[k].tag # "blockquote"
              /\ select_in(html[k], "p") = <<>>
              /\ Len(_safe_text(html[k])) >= 10 )
            => \E i \in 1..Len(ret) : ret[i].text = _safe_text(html[k])

\* ------------------------------------------------------------------------
\* Claims on the order of the run
\* ------------------------------------------------------------------------
\* C19: the run scrapes products, reviews and testimonials in this order on
\* the one driver it created; the file of a kind is written, with what the
\* scrape of the kind returned, after that scrape has returned and before the
\* scrape of the next kind starts; when a scrape raises, the files of the
\* kinds done before stay written and the files of its own kind and of the
\* later kinds are not touched.
C19_KindsInOrderEachSavedBeforeTheNext ==
    [][ entry = "__main__" =>
          /\ pc' = "scrape_products" => pc = "create_driver"
          /\ pc' = "save_products" => pc = "P_return"
          /\ pc' = "scrape_reviews" =>
                (pc = "save_products" /\ files'["products.json"].written)
          /\ pc' = "save_reviews" => pc = "R_return"
          /\ pc' = "scrape_testimonials" =>
                (pc = "save_reviews" /\ files'["reviews.json"].written)
          /\ pc' = "save_testimonials" => pc = "T_return"
          /\ KindAt(pc') >= KindAt(pc)
          /\ KindAt(pc) \in 1..3 => driver = "open"
          /\ driver' # driver => pc \in {"create_driver", "finally"}
          /\ files' # files =>
                /\ pc \in {"save_products", "save_reviews", "save_testimonials"}
                /\ exc' = "none"
                /\ \A f \in Paths :
                      files'[f] = IF f = KindPaths[KindAt(pc)]
                                  THEN [written |-> TRUE, data |-> ret]
                                  ELSE files[f]
          /\ (exc = "none" /\ exc' # "none" /\ KindAt(pc) \in 1..3) =>
                /\ pc' = "finally"
                /\ files' = files
                /\ \A k \in 1..3 : files[KindPaths[k]].written <=> k < KindAt(pc)
          /\ exc # "none" => (files' = files /\ exc' = exc)
      ]_vars

\* the scrape of the testimonials raised: the products and the reviews are
\* in their files, testimonials.json is not written
C19_Witness ==
    /\ entry = "__main__" /\ pc = "exit"
    /\ exc = "TimeoutException" /\ raised_at = "T_wait"
    /\ files["products.json"].written /\ files["products.json"].data # <<>>
    /\ files["reviews.json"].written /\ files["reviews.json"].data # <<>>
    /\ ~files["testimonials.json"].written

\* ------------------------------------------------------------------------
\* Claims on the accumulator of scrape_products
\* ------------------------------------------------------------------------
\* the last page the accumulator holds records of, 0 for the empty accumulator
LastPageIn(all) == IF all = <<>> THEN 0 ELSE all[Len(all)].page

\* C20: at every point of scrape_products the accumulator holds only records
\* of pages already visited and found non-empty; their page fields never
\* decrease and cover 1..k with no gap, k being the pages taken so far; and
\* the accumulator is the per-page extractions one after the other, its
\* length the sum of their sizes: nothing is removed across pages.
C20_AccumulatorHoldsThePagesTaken ==
    (entry = "scrape_products" /\ pc \in {"P_get", "P_wait", "P_extract", "P_return"}) =>
        /\ \A i \in 1..Len(all_items) :
              /\ all_items[i].page \in 1..Len(served)
              /\ PageItems(all_items[i].page) # <<>>
              /\ all_items[i].page < page \/ (pc = "P_return" /\ all_items[i].page = page)
        /\ \A i, j \in 1..Len(all_items) :
              i <= j => all_items[i].page <= all_items[j].page
        /\ {all_items[i].page : i \in 1..Len(all_items)} = 1..LastPageIn(all_items)
        /\ pc # "P_return" => LastPageIn(all_items) = page - 1
        /\ pc = "P_return" => LastPageIn(all_items) \in {page - 1, page}
        /\ all_items = ItemsOfPages(LastPageIn(all_items))

\* two pages taken, the third about to be fetched: the accumulator holds the
\* same (name, price) once for page 1 and once for page 2
C20_Witness ==
    /\ entry = "scrape_products" /\ pc = "P_get" /\ page = 3
    /\ Len(all_items) = 4
    /\ \E i, j \in 1..Len(all_items) :
          /\ all_items[i].page = 1 /\ all_items[j].page = 2
          /\ all_items[i].name = all_items[j].name
          /\ all_items[i].price = all_items[j].price

====
